---- MODULE Spec2Model ----
(***************************************************************************)
(* The conversion & forwarding gateway (src/src/server.ts) and the batch   *)
(* attachment orchestrator (the Suitelet, src/unnamed/part_000).           *)
(*                                                                         *)
(* JSON objects are records; a field that is undefined in JavaScript is a  *)
(* field that is not in the record's DOMAIN.  base64Data is a tagged value *)
(* [t, v]: t = "string" with v a sequence of one-character strings, or     *)
(* t = "number" for a value of the wrong type.                             *)
(***************************************************************************)
EXTENDS Integers, Sequences, FiniteSets, TLC

VARIABLES
  pc,        \* per connection: idle, received, awaiting, responded, unhandled
  req,       \* per connection: the HTTP request being served
  resp,      \* per connection: the HTTP response sent to the caller
  outbound,  \* per connection: the axios.request configs issued for it
  upstream,  \* per connection: how the outbound exchange ended
  opc,       \* orchestrator: off, start, loop, posting, done, aborted
  files,     \* orchestrator: the attachments the search returns, in order
  idx,       \* orchestrator: position of run().each
  results,   \* orchestrator: var results = []
  token,     \* orchestrator: respObj.access_token
  report     \* orchestrator: what context.response.write was given

vars == <<pc, req, resp, outbound, upstream, opc, files, idx, results, token, report>>
gwVars == <<pc, req, resp, outbound, upstream>>
orchVars == <<opc, files, idx, results, token, report>>

(***************************************************************************)
(* Bounds                                                                  *)
(***************************************************************************)
MaxFiles == 2

\* longest base64 string sent to the decoder
MaxChars == 6

(***************************************************************************)
(* JavaScript objects                                                      *)
(***************************************************************************)
EmptyObj == [k \in {} |-> ""]

Has(obj, k) == k \in DOMAIN obj

\* { ...a, ...b }: the keys of both, b's value where both have the key
Spread(a, b) == [k \in DOMAIN a \cup DOMAIN b |-> IF k \in DOMAIN b THEN b[k] ELSE a[k]]

\* HTTP header names are case-insensitive: the name as it counts on the wire
LowerCase(k) ==
  CASE k = "Content-Type" -> "content-type"
    [] k = "Authorization" -> "authorization"
    [] k = "Accept" -> "accept"
    [] OTHER -> k

(***************************************************************************)
(* Buffer.from(s, "base64")                                                *)
(***************************************************************************)
Alphabet ==
  << "A","B","C","D","E","F","G","H","I","J","K","L","M","N","O","P",
     "Q","R","S","T","U","V","W","X","Y","Z","a","b","c","d","e","f",
     "g","h","i","j","k","l","m","n","o","p","q","r","s","t","u","v",
     "w","x","y","z","0","1","2","3","4","5","6","7","8","9","+","/" >>

IsB64Char(c) == \E i \in DOMAIN Alphabet : Alphabet[i] = c

B64Value(c) == (CHOOSE i \in DOMAIN Alphabet : Alphabet[i] = c) - 1

\* the characters before the first "=": decoding stops at the padding
RECURSIVE BeforePadding(_)
BeforePadding(s) ==
  IF s = <<>> \/ Head(s) = "=" THEN <<>>
  ELSE <<Head(s)>> \o BeforePadding(Tail(s))

\* characters outside the alphabet are skipped
Sextets(s) ==
  LET kept == SelectSeq(BeforePadding(s), IsB64Char)
  IN [i \in 1..Len(kept) |-> B64Value(kept[i])]

RECURSIVE DecodeSextets(_)
DecodeSextets(q) ==
  IF Len(q) < 2 THEN <<>>
  ELSE LET b1 == q[1] * 4 + q[2] \div 16
       IN IF Len(q) = 2 THEN <<b1>>
          ELSE LET b2 == (q[2] % 16) * 16 + q[3] \div 4
               IN IF Len(q) = 3 THEN <<b1, b2>>
                  ELSE <<b1, b2, (q[3] % 4) * 64 + q[4]>>
                         \o DecodeSextets(SubSeq(q, 5, Len(q)))

\* a decoder that keeps whole groups of four characters only
BufferFromWholeGroups(s) ==
  LET q == Sextets(s)
  IN DecodeSextets(SubSeq(q, 1, Len(q) - (Len(q) % 4)))

BufferFrom(s) == DecodeSextets(Sextets(s))

(***************************************************************************)
(* buffer.toString("base64")                                               *)
(***************************************************************************)
RECURSIVE ToStringBase64(_)
ToStringBase64(b) ==
  IF b = <<>> THEN <<>>
  ELSE LET c1 == Alphabet[b[1] \div 4 + 1]
       IN IF Len(b) = 1
          THEN <<c1, Alphabet[(b[1] % 4) * 16 + 1], "=", "=">>
          ELSE LET c2 == Alphabet[(b[1] % 4) * 16 + b[2] \div 16 + 1]
               IN IF Len(b) = 2
                  THEN <<c1, c2, Alphabet[(b[2] % 16) * 4 + 1], "=">>
                  ELSE <<c1, c2, Alphabet[(b[2] % 16) * 4 + b[3] \div 64 + 1],
                         Alphabet[(b[3] % 64) + 1]>>
                         \o ToStringBase64(SubSeq(b, 4, Len(b)))

\* a base64 string: alphabet characters, then no padding or the padding
\* that fills the last group of four
ValidBase64(s) ==
  LET body == BeforePadding(s)
      n == Len(body)
      pad == Len(s) - n
  IN /\ n >= 2 /\ n % 4 # 1
     /\ \A i \in 1..n : IsB64Char(s[i])
     /\ \A i \in (n + 1)..Len(s) : s[i] = "="
     /\ pad = 0 \/ (pad <= 2 /\ (n + pad) % 4 = 0)

\* the form toString("base64") writes: the bits of the last character that
\* carry no data are zero and the last group is padded to four
Normalize(s) ==
  LET body == BeforePadding(s)
      n == Len(body)
      sextet == B64Value(body[n])
      last == CASE n % 4 = 2 -> Alphabet[(sextet \div 16) * 16 + 1]
                [] n % 4 = 3 -> Alphabet[(sextet \div 4) * 4 + 1]
                [] OTHER -> body[n]
      padding == CASE n % 4 = 2 -> <<"=", "=">>
                   [] n % 4 = 3 -> <<"=">>
                   [] OTHER -> <<>>
  IN SubSeq(body, 1, n - 1) \o <<last>> \o padding

(***************************************************************************)
(* Configuration                                                           *)
(***************************************************************************)
API_KEY == "NSZoho@8080"

ConvertPath == "/api/convert/base64-to-binary"
ForwardPath == "/api/forward"

(***************************************************************************)
(* Responses                                                               *)
(***************************************************************************)
\* res.status(code).json(body)
Json(code, body) == [status |-> code, headers |-> EmptyObj, body |-> body]

NoResponse == [status |-> 0, headers |-> EmptyObj, body |-> EmptyObj]

(***************************************************************************)
(* Error handlers                                                          *)
(***************************************************************************)
\* an error the body parser raises for malformed JSON: a SyntaxError with a
\* body property
IsJsonSyntaxError(err) == err.name = "SyntaxError" /\ Has(err, "body")

BasicErrorHandlerLeaks(err) == Json(500, [error |-> err.message])

BasicErrorHandler(err) == Json(500, [error |-> "Internal server error"])

JsonErrorHandler(err) ==
  IF IsJsonSyntaxError(err)
  THEN Json(400, [error |-> "Invalid JSON in request body", details |-> err.message])
  ELSE BasicErrorHandler(err)

\* next(err): the error-handling middleware, in registration order
NextError(err) == JsonErrorHandler(err)

(***************************************************************************)
(* express.json({ limit: "10mb", strict: false })                          *)
(***************************************************************************)
ParseFailed == [name |-> "SyntaxError", body |-> "{bad", message |-> "Unexpected end of JSON input"]
TooLarge == [name |-> "PayloadTooLargeError", message |-> "request entity too large"]

\* the parser's outcome: next() or next(err)
JsonParser(r) ==
  CASE r.bodyState = "malformed" -> [kind |-> "error", err |-> ParseFailed]
    [] r.bodyState = "toolarge" -> [kind |-> "error", err |-> TooLarge]
    [] OTHER -> [kind |-> "next"]

(***************************************************************************)
(* API key validation middleware                                           *)
(***************************************************************************)
\* a check that lets only the root path through
SkipsKeyCheckRootOnly(r) == r.path = "/"

SkipsKeyCheck(r) == r.path = "/health" \/ r.path = "/"

\* !providedKey || providedKey !== API_KEY
\* a check that rejects only a request without the header
KeyRejectedAbsentOnly(r) == ~Has(r.headers, "x-api-key")

\* !providedKey || providedKey !== API_KEY
KeyRejected(r) ==
  \/ ~Has(r.headers, "x-api-key")
  \/ r.headers["x-api-key"] = ""
  \/ r.headers["x-api-key"] # API_KEY

Unauthorized ==
  Json(401, [error |-> "Unauthorized",
             message |-> "Invalid or missing API key. Please provide valid x-api-key header."])

ApiKeyMiddleware(r) ==
  IF SkipsKeyCheck(r) THEN [kind |-> "next"]
  ELSE IF KeyRejected(r) THEN [kind |-> "respond", response |-> Unauthorized]
  ELSE [kind |-> "next"]

(***************************************************************************)
(* POST /api/forward                                                       *)
(***************************************************************************)
\* if (targetUrl === "")
MissingTargetUrlEmptyOnly(body) == Has(body, "targetUrl") /\ body.targetUrl = ""

\* !targetUrl
MissingTargetUrl(body) == ~Has(body, "targetUrl") \/ body.targetUrl = ""

ForwardConfigAlwaysPost(body) ==
  Spread(Spread(IF Has(body, "targetUrl") THEN [k \in {"url"} |-> body.targetUrl] ELSE EmptyObj,
                [method |-> "POST",
                 headers |-> IF Has(body, "headers") THEN body.headers ELSE EmptyObj]),
         IF Has(body, "body") THEN [k \in {"data"} |-> body.body] ELSE EmptyObj)

\* the argument of axios.request; a field that is undefined is left out
ForwardConfig(body) ==
  Spread(Spread(IF Has(body, "targetUrl") THEN [k \in {"url"} |-> body.targetUrl] ELSE EmptyObj,
                [method |-> IF Has(body, "method") THEN body.method ELSE "POST",
                 headers |-> IF Has(body, "headers") THEN body.headers ELSE EmptyObj]),
         IF Has(body, "body") THEN [k \in {"data"} |-> body.body] ELSE EmptyObj)

ForwardHandler(r) ==
  IF MissingTargetUrl(r.body)
  THEN [kind |-> "respond", response |-> Json(400, [error |-> "targetUrl is required"])]
  ELSE [kind |-> "request", config |-> ForwardConfig(r.body)]

(***************************************************************************)
(* POST /api/convert/base64-to-binary                                      *)
(***************************************************************************)
MimeTypeOfIgnored(body) == "application/octet-stream"

FileNameOf(body) == IF Has(body, "fileName") THEN body.fileName ELSE "file.bin"
MimeTypeOf(body) == IF Has(body, "mimeType") THEN body.mimeType ELSE "application/octet-stream"

\* a JavaScript value used as a condition
Truthy(x) == IF x.t = "string" THEN x.v # <<>> ELSE x.v # 0

MissingBase64AbsentOnly(body) == ~Has(body, "base64Data")

\* !base64Data
MissingBase64(body) == ~Has(body, "base64Data") \/ ~Truthy(body.base64Data)

\* base64Data ? base64Data.substring(0, 50) + "..." : null, in the logging
\* before the check and outside the try
PreviewThrows(body) ==
  /\ Has(body, "base64Data")
  /\ Truthy(body.base64Data)
  /\ body.base64Data.t # "string"

\* forward?.url
HasForwardUrl(body) ==
  /\ Has(body, "forward")
  /\ Has(body.forward, "url")
  /\ body.forward.url # ""

Boundary == "--------------------------boundary"

FormDataOfFileField(body, buffer) ==
  [boundary |-> Boundary,
   parts |-> << [name |-> "file", filename |-> FileNameOf(body),
                 contentType |-> MimeTypeOf(body), content |-> buffer] >>]

\* new FormData(); formData.append('attachment', buffer, {filename, contentType})
FormDataOf(body, buffer) ==
  [boundary |-> Boundary,
   parts |-> << [name |-> "attachment", filename |-> FileNameOf(body),
                 contentType |-> MimeTypeOf(body), content |-> buffer] >>]

\* the headers of a raw upload: the part's type and the byte count
GetHeadersRaw(form) ==
  [k \in {"Content-Type", "Content-Length"} |->
     IF k = "Content-Type" THEN form.parts[1].contentType ELSE "length"]

\* formData.getHeaders()
GetHeaders(form) ==
  [k \in {"content-type"} |-> "multipart/form-data; boundary=" \o form.boundary]

ForwardHeaders(body) ==
  IF Has(body.forward, "headers") THEN body.forward.headers ELSE EmptyObj

ConvertConfigAlwaysPost(body, buffer) ==
  LET form == FormDataOf(body, buffer)
  IN [url |-> body.forward.url,
      method |-> "POST",
      headers |-> Spread(GetHeaders(form), ForwardHeaders(body)),
      data |-> form]

\* forward.method || "POST"
ForwardMethod(body) ==
  IF Has(body.forward, "method") /\ body.forward.method # "" THEN body.forward.method ELSE "POST"

ConvertConfig(body, buffer) ==
  LET form == FormDataOf(body, buffer)
  IN [url |-> body.forward.url,
      method |-> ForwardMethod(body),
      headers |-> Spread(GetHeaders(form), ForwardHeaders(body)),
      data |-> form]

\* res.setHeader(...); res.send(buffer)
SendFile(body, buffer) ==
  [status |-> 200,
   headers |-> [k \in {"Content-Type", "Content-Disposition"} |->
                  IF k = "Content-Type" THEN MimeTypeOf(body)
                  ELSE "attachment; filename=\"" \o FileNameOf(body) \o "\""],
   body |-> [bytes |-> buffer]]

SubstringError == [name |-> "TypeError", message |-> "base64Data.substring is not a function"]

\* a decoder that rejects a character outside the alphabet
TryDecodeStrict(chars) ==
  IF \E i \in DOMAIN chars : ~IsB64Char(chars[i]) /\ chars[i] # "="
  THEN [kind |-> "throw", err |-> [name |-> "TypeError", message |-> "Invalid base64"]]
  ELSE [kind |-> "value", buffer |-> BufferFrom(chars)]

\* const buffer = Buffer.from(base64Data, "base64"), inside the try: it
\* returns a buffer for every string
TryDecode(chars) == [kind |-> "value", buffer |-> BufferFrom(chars)]

ConvertHandler(r) ==
  IF PreviewThrows(r.body) THEN [kind |-> "throw", err |-> SubstringError]
  ELSE IF MissingBase64(r.body)
  THEN [kind |-> "respond", response |-> Json(400, [error |-> "base64Data is required"])]
  ELSE LET decoded == TryDecode(r.body.base64Data.v)
       IN IF decoded.kind = "throw"
          THEN \* catch (error) { next(error) }
               [kind |-> "respond", response |-> NextError(decoded.err)]
          ELSE IF HasForwardUrl(r.body)
          THEN [kind |-> "request", config |-> ConvertConfig(r.body, decoded.buffer)]
          ELSE [kind |-> "respond", response |-> SendFile(r.body, decoded.buffer)]

(***************************************************************************)
(* The other routes                                                        *)
(***************************************************************************)
HealthHandler(r) == [kind |-> "respond", response |-> Json(200, [status |-> "ok"])]

TestHandler(r) ==
  [kind |-> "respond",
   response |-> Json(200, [success |-> TRUE,
                           message |-> "Test endpoint received your request!",
                           receivedBody |-> r.body,
                           bodyType |-> "object",
                           timestamp |-> "now"])]

\* no route matches: the framework's 404
NotFound == [kind |-> "respond", response |-> Json(404, EmptyObj)]

Router(r) ==
  CASE r.method = "POST" /\ r.path = ForwardPath -> ForwardHandler(r)
    [] r.method = "POST" /\ r.path = ConvertPath -> ConvertHandler(r)
    [] r.method = "GET" /\ r.path = "/health" -> HealthHandler(r)
    [] r.method = "POST" /\ r.path = "/api/test" -> TestHandler(r)
    [] OTHER -> NotFound

(***************************************************************************)
(* The middleware stack, in registration order, up to the first await      *)
(***************************************************************************)
App(r) ==
  LET parsed == JsonParser(r)
      auth == ApiKeyMiddleware(r)
  IN IF parsed.kind = "error"
     THEN [kind |-> "respond", response |-> NextError(parsed.err)]
     ELSE IF auth.kind = "respond" THEN auth
     ELSE Router(r)

(***************************************************************************)
(* After the await                                                         *)
(***************************************************************************)
\* a relay of the upstream body without the envelope
RelayDataOnly(up) == Json(up.status, up.data)

RelayAlwaysOk(up) ==
  Json(200, [status |-> up.status, headers |-> up.headers, data |-> up.data])

\* res.status(response.status).json({status, headers, data})
Relay(up) ==
  Json(up.status, [status |-> up.status, headers |-> up.headers, data |-> up.data])

(***************************************************************************)
(* The environment of the gateway: callers and upstreams                   *)
(***************************************************************************)
Conn == {"c1"}

Statuses == {200, 201, 202, 400, 429, 500}

UpstreamData == { [id |-> "123"], [message |-> "rejected"] }

UpstreamResponses ==
  { [status |-> st, headers |-> [k \in {"content-type"} |-> "application/json"], data |-> d] :
      st \in Statuses, d \in UpstreamData }

\* what axios.request rejects with when the exchange cannot be completed
TransportErrors ==
  { [name |-> "AxiosError", message |-> "connect ECONNREFUSED 10.0.0.1:443"],
    [name |-> "TypeError", message |-> "Invalid URL"] }

Str(chars) == [t |-> "string", v |-> chars]
Num(n) == [t |-> "number", v |-> n]

B64Hi == <<"S", "G", "k", "=">>
B64Dirty == <<"S", "!", "G", "k">>

KeyHeaders ==
  { EmptyObj } \cup { [k \in {"x-api-key"} |-> v] : v \in {"", "bad-key", API_KEY} }

CallerHeaders ==
  { [k \in {"Authorization"} |-> "Zoho-oauthtoken t"],
    [k \in {"content-type"} |-> "application/pdf"],
    [k \in {"Content-Type", "Authorization"} |->
       IF k = "Content-Type" THEN "application/pdf" ELSE "Zoho-oauthtoken t"] }

ForwardTargets ==
  { [k \in {"method"} |-> "PUT"],
    [url |-> ""],
    [url |-> "https://books.example/upload"] }
  \cup { [url |-> "https://books.example/upload", method |-> "PUT", headers |-> h] :
           h \in CallerHeaders }

Base64Values == { Str(<<>>), Str(B64Hi), Str(B64Dirty), Num(123), Num(0) }

NameFields == { EmptyObj, [fileName |-> "test.txt", mimeType |-> "text/plain"] }

ConvertBodies ==
  { Spread(Spread(b, n), f) :
      b \in {EmptyObj} \cup { [k \in {"base64Data"} |-> x] : x \in Base64Values },
      n \in NameFields,
      f \in {EmptyObj} \cup { [k \in {"forward"} |-> t] : t \in ForwardTargets } }

ForwardBodies ==
  { Spread(Spread(Spread(u, m), h), d) :
      u \in {EmptyObj, [targetUrl |-> ""], [targetUrl |-> "https://example.com/api"]},
      m \in {EmptyObj, [method |-> "GET"]},
      h \in {EmptyObj, [k \in {"headers"} |-> [j \in {"Authorization"} |-> "Bearer token"]]},
      d \in {EmptyObj, [k \in {"body"} |-> [test |-> "data"]]} }

Paths == {"/health", "/", ForwardPath, ConvertPath, "/api/test", "/api/unknown"}

BodiesFor(path) ==
  CASE path = ConvertPath -> ConvertBodies
    [] path = ForwardPath -> ForwardBodies
    [] OTHER -> {EmptyObj}

Requests ==
  UNION { { [method |-> m, path |-> p, headers |-> h, bodyState |-> "json", body |-> b] :
              m \in {"GET", "POST"}, h \in KeyHeaders, b \in BodiesFor(p) }
          \cup
          { [method |-> m, path |-> p, headers |-> h, bodyState |-> s, body |-> EmptyObj] :
              m \in {"GET", "POST"}, h \in KeyHeaders, s \in {"malformed", "toolarge"} }
        : p \in Paths }

NoRequest ==
  [method |-> "", path |-> "", headers |-> EmptyObj, bodyState |-> "json", body |-> EmptyObj]

NoExchange == [kind |-> "none"]

(***************************************************************************)
(* The orchestrator (Suitelet onRequest)                                   *)
(***************************************************************************)
MiddlewarePath == ConvertPath
ApiKey == "NSZoho@8080"
ZohoUrl == "<zoho_cud_api>bills/2950483000000649068/attachment<OrganizationID>"

\* mimeMap
MimeMap ==
  [t \in {"PDF", "PLAINTEXT", "CSV", "XMLDOC", "PNGIMAGE", "JPGIMAGE", "GIFIMAGE",
          "TIFFIMAGE", "BMPIMAGE", "WORD", "EXCEL", "ZIP", "GZIP"} |->
     CASE t = "PDF" -> "application/pdf"
       [] t = "PLAINTEXT" -> "text/plain"
       [] t = "CSV" -> "text/csv"
       [] t = "XMLDOC" -> "application/xml"
       [] t = "PNGIMAGE" -> "image/png"
       [] t = "JPGIMAGE" -> "image/jpeg"
       [] t = "GIFIMAGE" -> "image/gif"
       [] t = "TIFFIMAGE" -> "image/tiff"
       [] t = "BMPIMAGE" -> "image/bmp"
       [] t = "WORD" -> "application/msword"
       [] t = "EXCEL" -> "application/vnd.ms-excel"
       [] t = "ZIP" -> "application/zip"
       [] t = "GZIP" -> "application/gzip"]

\* getMimeType(nsType): mimeMap[nsType], undefined for a tag not in the map
HasMimeType(nsType) == nsType \in DOMAIN MimeMap
GetMimeType(nsType) == MimeMap[nsType]

\* a payload built with a token that is not the one acquired in this run
PayloadFixedToken(f, tok) ==
  [base64Data |-> Str(f.contents),
   fileName |-> f.name,
   mimeType |-> GetMimeType(f.fileType),
   forward |-> [url |-> ZohoUrl,
                method |-> "POST",
                headers |-> [k \in {"Authorization", "Accept"} |->
                               IF k = "Authorization" THEN "Zoho-oauthtoken 1000.abc"
                               ELSE "*/*"]]]

Payload(f, tok) ==
  [base64Data |-> Str(f.contents),
   fileName |-> f.name,
   mimeType |-> GetMimeType(f.fileType),
   forward |-> [url |-> ZohoUrl,
                method |-> "POST",
                headers |-> [k \in {"Authorization", "Accept"} |->
                               IF k = "Authorization" THEN "Zoho-oauthtoken " \o tok
                               ELSE "*/*"]]]

\* https.post({url: middlewareUrl, headers, body: JSON.stringify(payload)})
PostRequest(f, tok) ==
  [method |-> "POST",
   path |-> MiddlewarePath,
   headers |-> [k \in {"Content-Type", "x-api-key"} |->
                  IF k = "x-api-key" THEN ApiKey ELSE "application/json"],
   bodyState |-> "json",
   body |-> Payload(f, tok)]

SkippedOutcome(f) ==
  [fileName |-> f.name, status |-> "skipped",
   reason |-> "Unsupported file type: " \o f.fileType]

ErrorOutcome(f) ==
  [fileName |-> f.name, status |-> "error", error |-> "Error",
   message |-> "Failed to call middleware or parse response"]

\* JSON.parse(response.body) succeeds on a JSON text only
Parses(r) == ~Has(r.body, "raw") /\ ~Has(r.body, "bytes")

IsSuccessAny2xx(body) ==
  Has(body, "status") /\ body.status >= 200 /\ body.status < 300

\* middlewareResponse.status === 200 || middlewareResponse.status === 201
IsSuccess(body) == Has(body, "status") /\ (body.status = 200 \/ body.status = 201)

\* the object pushed in the try; a field whose value is undefined is left out,
\* as JSON.stringify leaves it out of the report
CalledOutcome(f, r) ==
  LET body == r.body
      base == [fileName |-> f.name,
               status |-> IF IsSuccess(body) THEN "success" ELSE "failed",
               middlewareStatus |-> r.status,
               message |-> IF IsSuccess(body) THEN "File uploaded successfully to Zoho"
                           ELSE "Zoho upload failed with status"]
      st == IF Has(body, "status") THEN [k \in {"zohoStatus"} |-> body.status] ELSE EmptyObj
      data == IF Has(body, "data") THEN [k \in {"zohoResponse"} |-> body.data] ELSE EmptyObj
  IN Spread(Spread(base, st), data)

\* the try/catch around https.post and JSON.parse
Outcome(f, r) == IF Parses(r) THEN CalledOutcome(f, r) ELSE ErrorOutcome(f)

PushSkippedDropped(rs, f) == rs

\* results.unshift(...): the outcome goes to the front
PushSkippedFirst(rs, f) == <<SkippedOutcome(f)>> \o rs

\* results.push({fileName, status: 'skipped', reason}); return true
PushSkipped(rs, f) == Append(rs, SkippedOutcome(f))

FinalResponse(rs) ==
  [status |-> "completed", filesProcessed |-> Len(rs), timestamp |-> "now", results |-> rs]

FileNames == <<"bill.pdf", "scan.bin", "notes.txt", "extra.pdf">>

Tokens == {"1000.abc", "1000.xyz"}

\* what file.load and getContents give for one attachment
FileVariants(i) ==
  { [name |-> FileNames[i], fileType |-> t, loads |-> TRUE, readable |-> TRUE, contents |-> B64Hi] :
      t \in {"PDF", "GZIP", "MP3"} }
  \cup
  { [name |-> FileNames[i], fileType |-> "PDF", loads |-> FALSE, readable |-> TRUE, contents |-> B64Hi],
    [name |-> FileNames[i], fileType |-> "PDF", loads |-> TRUE, readable |-> FALSE, contents |-> B64Hi],
    [name |-> FileNames[i], fileType |-> "MP3", loads |-> TRUE, readable |-> FALSE, contents |-> B64Hi],
    [name |-> FileNames[i], fileType |-> "PDF", loads |-> TRUE, readable |-> TRUE, contents |-> <<>>] }

FileLists ==
  UNION { { fs \in [1..n -> UNION { FileVariants(i) : i \in 1..n }] :
              \A i \in 1..n : fs[i] \in FileVariants(i) } : n \in 0..MaxFiles }

(***************************************************************************)
(* Gateway actions                                                         *)
(***************************************************************************)
\* a caller's request arrives on connection c
ClientSend(c) ==
  /\ pc[c] = "idle"
  /\ \E r \in Requests : req' = [req EXCEPT ![c] = r]
  /\ pc' = [pc EXCEPT ![c] = "received"]
  /\ UNCHANGED <<resp, outbound, upstream, orchVars>>

\* the middleware stack and the route handler, up to the response or to the
\* await of axios.request.  A handler that throws outside its try rejects
\* its promise: the framework either passes the rejection to the error
\* handlers (caught) or leaves it unhandled and the request unanswered.
Serve(c) ==
  /\ pc[c] = "received"
  /\ \E caught \in BOOLEAN :
       LET out == App(req[c])
       IN /\ pc' = [pc EXCEPT ![c] =
                      CASE out.kind = "request" -> "awaiting"
                        [] out.kind = "throw" /\ ~caught -> "unhandled"
                        [] OTHER -> "responded"]
          /\ resp' = [resp EXCEPT ![c] =
                        CASE out.kind = "respond" -> out.response
                          [] out.kind = "throw" /\ caught -> NextError(out.err)
                          [] OTHER -> @]
          /\ outbound' = [outbound EXCEPT ![c] =
                            IF out.kind = "request" THEN Append(@, out.config) ELSE @]
  /\ UNCHANGED <<req, upstream, orchVars>>

\* a relay through one response object shared by all requests in flight
UpstreamRespondsShared(c) ==
  /\ pc[c] = "awaiting"
  /\ \E up \in UpstreamResponses :
       /\ upstream' = [upstream EXCEPT ![c] = [kind |-> "response", response |-> up]]
       /\ resp' = [d \in DOMAIN resp |-> Relay(up)]
  /\ pc' = [pc EXCEPT ![c] = "responded"]
  /\ UNCHANGED <<req, outbound, orchVars>>

\* the upstream answers, with any status: validateStatus: () => true
UpstreamResponds(c) ==
  /\ pc[c] = "awaiting"
  /\ \E up \in UpstreamResponses :
       /\ upstream' = [upstream EXCEPT ![c] = [kind |-> "response", response |-> up]]
       /\ resp' = [resp EXCEPT ![c] = Relay(up)]
  /\ pc' = [pc EXCEPT ![c] = "responded"]
  /\ UNCHANGED <<req, outbound, orchVars>>

\* a catch that issues the request a second time
UpstreamFailsRetry(c) ==
  /\ pc[c] = "awaiting"
  /\ Len(outbound[c]) < 2
  /\ outbound' = [outbound EXCEPT ![c] = Append(@, @[1])]
  /\ UNCHANGED <<pc, req, resp, upstream, orchVars>>

\* axios.request rejects: catch (error) { next(error) }
UpstreamFails(c) ==
  /\ pc[c] = "awaiting"
  /\ \E err \in TransportErrors :
       /\ upstream' = [upstream EXCEPT ![c] = [kind |-> "error", err |-> err]]
       /\ resp' = [resp EXCEPT ![c] = NextError(err)]
  /\ pc' = [pc EXCEPT ![c] = "responded"]
  /\ UNCHANGED <<req, outbound, orchVars>>

GatewayInit ==
  /\ pc = [c \in Conn |-> "idle"]
  /\ req = [c \in Conn |-> NoRequest]
  /\ resp = [c \in Conn |-> NoResponse]
  /\ outbound = [c \in Conn |-> <<>>]
  /\ upstream = [c \in Conn |-> NoExchange]

Init ==
  /\ GatewayInit
  /\ opc = "off"
  /\ files = <<>>
  /\ idx = 1
  /\ results = <<>>
  /\ token = ""
  /\ report = <<>>

Next ==
  \E c \in Conn :
    \/ ClientSend(c)
    \/ Serve(c)
    \/ UpstreamResponds(c)
    \/ UpstreamFails(c)

Spec == Init /\ [][Next]_vars

(***************************************************************************)
(* The convert route as a decoder: one caller sends a base64 string        *)
(***************************************************************************)
CodecChars == {"A", "k", "l", "/"}

ValidStrings ==
  { s \in UNION { [1..n -> CodecChars \cup {"="}] : n \in 2..MaxChars } : ValidBase64(s) }

\* a convert request with the valid key, base64Data the string, no forward
SendBase64(c) ==
  /\ pc[c] = "idle"
  /\ \E s \in ValidStrings :
       req' = [req EXCEPT ![c] =
                 [method |-> "POST", path |-> ConvertPath,
                  headers |-> [k \in {"x-api-key"} |-> API_KEY],
                  bodyState |-> "json",
                  body |-> [k \in {"base64Data"} |-> Str(s)]]]
  /\ pc' = [pc EXCEPT ![c] = "received"]
  /\ UNCHANGED <<resp, outbound, upstream, orchVars>>

CodecNext == \E c \in Conn : SendBase64(c) \/ Serve(c)

SpecCodec == Init /\ [][CodecNext]_vars

(***************************************************************************)
(* Two callers served concurrently                                         *)
(***************************************************************************)
Conn2 == {"c1", "c2"}

WithKey == [k \in {"x-api-key"} |-> API_KEY]

ConcRequests ==
  { [method |-> "POST", path |-> ConvertPath, headers |-> WithKey, bodyState |-> "json",
     body |-> [base64Data |-> Str(B64Hi),
               forward |-> [url |-> "https://books.example/upload"]]],
    [method |-> "POST", path |-> ConvertPath, headers |-> WithKey, bodyState |-> "json",
     body |-> [base64Data |-> Str(B64Dirty), fileName |-> "test.txt", mimeType |-> "text/plain"]],
    [method |-> "POST", path |-> ForwardPath, headers |-> EmptyObj, bodyState |-> "json",
     body |-> [targetUrl |-> "https://example.com/api"]],
    [method |-> "GET", path |-> "/health", headers |-> EmptyObj, bodyState |-> "json",
     body |-> EmptyObj] }

ClientSendConc(c) ==
  /\ pc[c] = "idle"
  /\ \E r \in ConcRequests : req' = [req EXCEPT ![c] = r]
  /\ pc' = [pc EXCEPT ![c] = "received"]
  /\ UNCHANGED <<resp, outbound, upstream, orchVars>>

ConcInit ==
  /\ pc = [c \in Conn2 |-> "idle"]
  /\ req = [c \in Conn2 |-> NoRequest]
  /\ resp = [c \in Conn2 |-> NoResponse]
  /\ outbound = [c \in Conn2 |-> <<>>]
  /\ upstream = [c \in Conn2 |-> NoExchange]
  /\ opc = "off"
  /\ files = <<>>
  /\ idx = 1
  /\ results = <<>>
  /\ token = ""
  /\ report = <<>>

ConcNext ==
  \E c \in Conn2 :
    \/ ClientSendConc(c)
    \/ Serve(c)
    \/ UpstreamResponds(c)
    \/ UpstreamFails(c)

\* the event loop runs a handler whose request has arrived; the upstream of
\* c2 settles, the upstream of c1 may stay silent for ever
SpecConc ==
  /\ ConcInit
  /\ [][ConcNext]_vars
  /\ \A c \in Conn2 : WF_vars(Serve(c))
  /\ WF_vars(UpstreamResponds("c2") \/ UpstreamFails("c2"))

(***************************************************************************)
(* Orchestrator actions                                                    *)
(***************************************************************************)
OC == "c1"

\* AGSZohoBookLib.get_Access_Token, once, before the search and the loop
GetToken ==
  /\ opc = "start"
  /\ \E t \in Tokens : token' = t
  /\ opc' = "loop"
  /\ UNCHANGED <<gwVars, files, idx, results, report>>

\* a loop that posts the next attachment while a call is still in flight
EachAhead ==
  /\ opc \in {"loop", "posting"}
  /\ LET i == IF opc = "posting" THEN idx + 1 ELSE idx
     IN /\ i <= Len(files)
        /\ files[i].loads /\ files[i].readable /\ HasMimeType(files[i].fileType)
        /\ idx' = i
        /\ req' = [req EXCEPT ![OC] = PostRequest(files[i], token)]
  /\ opc' = "posting"
  /\ pc' = [pc EXCEPT ![OC] = "received"]
  /\ resp' = [resp EXCEPT ![OC] = NoResponse]
  /\ outbound' = [outbound EXCEPT ![OC] = <<>>]
  /\ upstream' = [upstream EXCEPT ![OC] = NoExchange]
  /\ UNCHANGED <<files, results, token, report>>

\* one call of the run().each callback, up to its return or to https.post.
\* file.load and getContents come before the try: what they throw leaves
\* onRequest.
Each ==
  /\ opc = "loop"
  /\ idx <= Len(files)
  /\ LET f == files[idx]
         thrown == ~f.loads \/ ~f.readable
         skip == ~thrown /\ ~HasMimeType(f.fileType)
         post == ~thrown /\ ~skip
     IN /\ opc' = IF thrown THEN "aborted" ELSE IF skip THEN "loop" ELSE "posting"
        /\ results' = IF skip THEN PushSkipped(results, f) ELSE results
        /\ idx' = IF skip THEN idx + 1 ELSE idx
        /\ req' = IF post THEN [req EXCEPT ![OC] = PostRequest(f, token)] ELSE req
        /\ pc' = IF post THEN [pc EXCEPT ![OC] = "received"] ELSE pc
        /\ resp' = IF post THEN [resp EXCEPT ![OC] = NoResponse] ELSE resp
        /\ outbound' = IF post THEN [outbound EXCEPT ![OC] = <<>>] ELSE outbound
        /\ upstream' = IF post THEN [upstream EXCEPT ![OC] = NoExchange] ELSE upstream
  /\ UNCHANGED <<files, token, report>>

\* https.post throws: the gateway could not be reached
PostThrows ==
  /\ opc = "posting"
  /\ pc[OC] = "received"
  /\ pc' = [pc EXCEPT ![OC] = "refused"]
  /\ results' = Append(results, ErrorOutcome(files[idx]))
  /\ idx' = idx + 1
  /\ opc' = "loop"
  /\ UNCHANGED <<req, resp, outbound, upstream, files, token, report>>

\* something in front of the gateway answers in its place, not in JSON
ProxyAnswers ==
  /\ opc = "posting"
  /\ pc[OC] = "received"
  /\ pc' = [pc EXCEPT ![OC] = "responded"]
  /\ resp' = [resp EXCEPT ![OC] =
                [status |-> 502, headers |-> EmptyObj,
                 body |-> [raw |-> "<html>502 Bad Gateway</html>"]]]
  /\ UNCHANGED <<req, outbound, upstream, orchVars>>

\* https.post returns: JSON.parse, classify, push, return true
PostReturns ==
  /\ opc = "posting"
  /\ pc[OC] = "responded"
  /\ results' = Append(results, Outcome(files[idx], resp[OC]))
  /\ idx' = idx + 1
  /\ opc' = "loop"
  /\ UNCHANGED <<gwVars, files, token, report>>

\* after the loop: context.response.write(JSON.stringify(finalResponse))
Finish ==
  /\ opc = "loop"
  /\ idx > Len(files)
  /\ report' = <<FinalResponse(results)>>
  /\ opc' = "done"
  /\ UNCHANGED <<gwVars, files, idx, results, token>>

OrchInit ==
  /\ GatewayInit
  /\ opc = "start"
  /\ files \in FileLists
  /\ idx = 1
  /\ results = <<>>
  /\ token = ""
  /\ report = <<>>

OrchNext ==
  \/ GetToken
  \/ Each
  \/ Serve(OC)
  \/ UpstreamResponds(OC)
  \/ UpstreamFails(OC)
  \/ PostThrows
  \/ ProxyAnswers
  \/ PostReturns
  \/ Finish

SpecOrch == OrchInit /\ [][OrchNext]_vars

(***************************************************************************)
(* Properties of the gateway, under Spec                                   *)
(***************************************************************************)
Answered(c) == pc[c] = "responded"

ValidKey(r) == Has(r.headers, "x-api-key") /\ r.headers["x-api-key"] = API_KEY

InternalError == [error |-> "Internal server error"]

C2_AlwaysUnauthorized ==
  \A c \in Conn :
    ( /\ Answered(c)
      /\ ~(req[c].method = "GET" /\ req[c].path = "/health")
      /\ ~ValidKey(req[c]) )
    => resp[c].status = 401

\* C3: when the outbound request of a forwarding operation cannot be
\* completed, the answer is 500 with body exactly
\* {error: "Internal server error"}, nothing of the exception in it.
C3_TransportFailure ==
  \A c \in Conn :
    (Answered(c) /\ upstream[c].kind = "error") =>
      /\ resp[c].status = 500
      /\ resp[c].body = InternalError

C3_Witness ==
  \E c \in Conn :
    /\ Answered(c)
    /\ req[c].path = ForwardPath
    /\ upstream[c].kind = "error"
    /\ resp[c].status = 500

\* C8: in the outbound request of convert-and-forward every Content-Type
\* header, in any letter case, carries the multipart framing value the
\* gateway computed, and every other header of forward.headers is sent with
\* its value unchanged.
C8_FramingHeadersWin ==
  \A c \in Conn :
    \A i \in DOMAIN outbound[c] :
      req[c].path = ConvertPath =>
        LET cfg == outbound[c][i]
            given == ForwardHeaders(req[c].body)
        IN /\ \E k \in DOMAIN cfg.headers : LowerCase(k) = "content-type"
           /\ \A k \in DOMAIN cfg.headers :
                LowerCase(k) = "content-type" =>
                  cfg.headers[k] = "multipart/form-data; boundary=" \o cfg.data.boundary
           /\ \A k \in DOMAIN given :
                LowerCase(k) # "content-type" => cfg.headers[k] = given[k]

\* C9: a POST to the convert path with the valid key and a parsed body whose
\* base64Data is absent or the empty string is answered 400
\* {error: "base64Data is required"} and issues no outbound request.
C9_Base64Required ==
  \A c \in Conn :
    ( /\ pc[c] \in {"awaiting", "responded", "unhandled"}
      /\ req[c].method = "POST" /\ req[c].path = ConvertPath
      /\ ValidKey(req[c])
      /\ req[c].bodyState = "json"
      /\ \/ ~Has(req[c].body, "base64Data")
         \/ req[c].body.base64Data = Str(<<>>) )
    => /\ Answered(c)
       /\ resp[c].status = 400
       /\ resp[c].body = [error |-> "base64Data is required"]
       /\ outbound[c] = <<>>

C9_Witness ==
  \E c \in Conn :
    /\ Answered(c)
    /\ req[c].method = "POST" /\ req[c].path = ConvertPath
    /\ ValidKey(req[c])
    /\ Has(req[c].body, "base64Data") /\ req[c].body.base64Data = Str(<<>>)
    /\ HasForwardUrl(req[c].body)
    /\ resp[c].status = 400

\* C10: a POST to /api/forward with the valid key and a parsed body without
\* targetUrl is answered 400 {error: "targetUrl is required"} and issues no
\* outbound request.
C10_TargetUrlRequired ==
  \A c \in Conn :
    ( /\ pc[c] \in {"awaiting", "responded", "unhandled"}
      /\ req[c].method = "POST" /\ req[c].path = ForwardPath
      /\ ValidKey(req[c])
      /\ req[c].bodyState = "json"
      /\ ~Has(req[c].body, "targetUrl") )
    => /\ Answered(c)
       /\ resp[c].status = 400
       /\ resp[c].body = [error |-> "targetUrl is required"]
       /\ outbound[c] = <<>>

C10_Witness ==
  \E c \in Conn :
    /\ Answered(c)
    /\ req[c].method = "POST" /\ req[c].path = ForwardPath
    /\ ValidKey(req[c])
    /\ ~Has(req[c].body, "targetUrl")
    /\ Has(req[c].body, "headers") /\ Has(req[c].body, "body")
    /\ resp[c].status = 400

(***************************************************************************)
(* Properties of the orchestrator, under SpecOrch                          *)
(***************************************************************************)
\* the attachment the last https.post was made for
PostedIdx == CHOOSE i \in 1..Len(files) : files[i].name = req[OC].body.fileName

\* the last https.post has returned or thrown and its outcome is recorded
PostRecorded == opc \in {"loop", "done", "aborted"} /\ pc[OC] \in {"responded", "refused"}

\* C4: for a parseable envelope the recorded outcome is success exactly when
\* the envelope's status is 200 or 201, and failed with that same status
\* otherwise; when the call or the parsing throws, the outcome is error.
C4_Classification ==
  PostRecorded =>
    LET out == results[PostedIdx]
        r == resp[OC]
    IN IF pc[OC] = "refused" \/ ~Parses(r) THEN out.status = "error"
       ELSE Has(r.body, "status") =>
              IF r.body.status \in {200, 201} THEN out.status = "success"
              ELSE /\ out.status = "failed"
                   /\ Has(out, "zohoStatus")
                   /\ out.zohoStatus = r.body.status

C4_Witness ==
  /\ PostRecorded
  /\ pc[OC] = "responded"
  /\ Has(resp[OC].body, "status")
  /\ resp[OC].body.status = 429
  /\ results[PostedIdx].status = "failed"
  /\ PostedIdx = 2
  /\ results[1].status = "success"

\* C5: when the run ends with its report, filesProcessed is the number of
\* attachments discovered and the i-th result is the i-th attachment's, in
\* one of the four states.
C5_BatchComplete ==
  opc = "done" =>
    /\ Len(report) = 1
    /\ report[1].filesProcessed = Len(files)
    /\ Len(report[1].results) = Len(files)
    /\ \A i \in 1..Len(files) :
         /\ report[1].results[i].fileName = files[i].name
         /\ report[1].results[i].status \in {"skipped", "success", "failed", "error"}

C5_Witness ==
  /\ opc = "done"
  /\ Len(files) = 2
  /\ report[1].results[1].status = "skipped"
  /\ report[1].results[2].status = "failed"
  /\ Has(report[1].results[2], "zohoStatus")
  /\ report[1].results[2].zohoStatus = 429

\* C6: no failure while processing one attachment (loading it, reading its
\* content, calling the gateway, parsing the answer) leaves the loop: the
\* attachment gets an error or failed outcome and the run goes on to its
\* report.
C6_NoFailureEscapes ==
  /\ opc # "aborted"
  /\ \A i \in 1..Len(files) :
       (i <= Len(results) /\ (~files[i].loads \/ ~files[i].readable)) =>
         results[i].status \in {"error", "failed"}

\* C7: an attachment whose forward the gateway could not complete (its
\* generic 500) is recorded as error.
C7_TransportFailureIsError ==
  (PostRecorded /\ pc[OC] = "responded" /\ upstream[OC].kind = "error") =>
    results[PostedIdx].status = "error"

(***************************************************************************)
(* Further properties of the gateway, under Spec                           *)
(***************************************************************************)
\* a request the convert handler takes: POST, valid key, a body the parser
\* accepted, base64Data a non-empty string
ConvertCall(c) ==
  /\ pc[c] # "idle"
  /\ req[c].method = "POST" /\ req[c].path = ConvertPath
  /\ ValidKey(req[c])
  /\ req[c].bodyState = "json"
  /\ Has(req[c].body, "base64Data")
  /\ req[c].body.base64Data.t = "string"
  /\ req[c].body.base64Data.v # <<>>

\* the request names a forward target: forward with a non-empty url
NamesTarget(body) ==
  Has(body, "forward") /\ Has(body.forward, "url") /\ body.forward.url # ""

C17_ForwardVerbatim ==
  \A c \in Conn :
    \A i \in DOMAIN outbound[c] :
      req[c].path = ForwardPath =>
        LET cfg == outbound[c][i]
            b == req[c].body
        IN /\ DOMAIN cfg \subseteq {"url", "method", "headers", "data"}
           /\ cfg.url = b.targetUrl
           /\ cfg.method = (IF Has(b, "method") THEN b.method ELSE "POST")
           /\ cfg.headers = (IF Has(b, "headers") THEN b.headers ELSE EmptyObj)
           /\ Has(cfg, "data") <=> Has(b, "body")
           /\ Has(b, "body") => cfg.data = b.body

C17_Witness ==
  \E c \in Conn :
    /\ req[c].path = ForwardPath
    /\ Len(outbound[c]) = 1
    /\ Has(req[c].body, "method") /\ req[c].body.method = "GET"
    /\ Has(req[c].body, "headers") /\ Has(req[c].body, "body")
    /\ outbound[c][1].method = "GET"

\* C18: the outbound request of convert-and-forward goes to forward.url with
\* forward.method, and with POST when forward.method is absent.
C18_ForwardTarget ==
  \A c \in Conn :
    \A i \in DOMAIN outbound[c] :
      req[c].path = ConvertPath =>
        LET cfg == outbound[c][i]
            f == req[c].body.forward
        IN /\ cfg.url = f.url
           /\ cfg.method = (IF Has(f, "method") THEN f.method ELSE "POST")

C18_Witness ==
  \E c \in Conn :
    /\ req[c].path = ConvertPath
    /\ Len(outbound[c]) = 1
    /\ Has(req[c].body.forward, "method")
    /\ outbound[c][1].method = "PUT"

\* C20: a request whose JSON body is over the 10MB limit is answered 413;
\* it reaches no endpoint handler and issues no outbound request.
C20_PayloadTooLarge ==
  \A c \in Conn :
    (pc[c] \notin {"idle", "received"} /\ req[c].bodyState = "toolarge") =>
      /\ Answered(c)
      /\ resp[c].status = 413
      /\ outbound[c] = <<>>

(***************************************************************************)
(* Further properties of the orchestrator, under SpecOrch                  *)
(***************************************************************************)
\* results holds one outcome per attachment taken so far, in discovery order
InDiscoveryOrder(rs) ==
  /\ Len(rs) <= Len(files)
  /\ \A i \in DOMAIN rs : rs[i].fileName = files[i].name

\* C15: in the emitted report results[i] is the outcome of the i-th
\* attachment in discovery order, whatever the outcomes are; while the run
\* goes on outcomes are only appended, one at a time, never reordered or
\* removed, and a report once emitted does not change.
C15_DiscoveryOrder ==
  /\ [](/\ InDiscoveryOrder(results)
        /\ report # <<>> =>
             /\ Len(report[1].results) = Len(files)
             /\ InDiscoveryOrder(report[1].results))
  /\ [][/\ \/ results' = results
           \/ results' = Append(results, SkippedOutcome(files[idx]))
           \/ results' = Append(results, ErrorOutcome(files[idx]))
           \/ pc[OC] = "responded" /\ results' = Append(results, Outcome(files[idx], resp[OC]))
        /\ report # <<>> => report' = report
        /\ report' # report => report' = <<FinalResponse(results)>>]_vars

\* a report of two outcomes where a skipped one comes after a posted one
C15_Witness ==
  /\ report # <<>>
  /\ Len(report[1].results) = 2
  /\ report[1].results[1].status \in {"success", "failed", "error"}
  /\ report[1].results[2].status = "skipped"
  /\ report[1].results[1].fileName = FileNames[1]
  /\ report[1].results[2].fileName = FileNames[2]

\* C19: an attachment tagged GZIP resolves to no MIME type: it is recorded
\* as skipped and never posted to the gateway.
C19_GzipSkipped ==
  /\ opc = "posting" => files[idx].fileType # "GZIP"
  /\ \A i \in DOMAIN results :
       files[i].fileType = "GZIP" => results[i].status = "skipped"

(***************************************************************************)
(* The decoder, under SpecCodec                                            *)
(***************************************************************************)
\* C21: for every valid base64 string S sent as base64Data with no forward
\* target the answer is 200 and its body is the byte sequence S encodes:
\* encoding the body again gives S in normalized form.
C21_RoundTrip ==
  \A c \in Conn :
    (Answered(c) /\ req[c].path = ConvertPath /\ ValidBase64(req[c].body.base64Data.v)) =>
      /\ resp[c].status = 200
      /\ Has(resp[c].body, "bytes")
      /\ ToStringBase64(resp[c].body.bytes) = Normalize(req[c].body.base64Data.v)

\* two groups, the second unpadded with data in three characters
C21_Witness ==
  \E c \in Conn :
    /\ Answered(c)
    /\ req[c].body.base64Data.v = <<"k", "l", "/", "A", "/", "k">>
    /\ resp[c].body.bytes = <<146, 95, 192, 254>>

(***************************************************************************)
(* Further properties of the gateway, under Spec                           *)
(***************************************************************************)
\* the request went past the body parser and the key check applies to it
KeyChecked(r) == r.bodyState = "json" /\ r.path \notin {"/health", "/"}

C28_EveryRequestAnswered ==
  \A c \in Conn : pc[c] # "unhandled"

InFlight == pc[OC] \in {"received", "awaiting"}

\* C23: within one run at most one gateway call is in flight: a call is
\* issued only from the loop, when no call is in flight and the outcome of
\* every earlier attachment has been recorded.
C23_OneCallAtATime ==
  /\ [](/\ InFlight => opc = "posting"
        /\ opc = "posting" => (idx <= Len(files) /\ Len(results) = idx - 1))
  /\ [][(pc'[OC] = "received" /\ (pc[OC] # "received" \/ req' # req)) =>
          /\ opc = "loop"
          /\ ~InFlight
          /\ Len(results) = idx - 1
          /\ req'[OC].body.fileName = files[idx].name]_vars

\* the call for the second attachment in flight, the first one recorded
C23_Witness ==
  /\ opc = "posting"
  /\ idx = 2
  /\ pc[OC] = "awaiting"
  /\ Len(results) = 1
  /\ results[1].status \in {"success", "failed", "error"}

\* C24: the token is acquired once per run, before the first attachment is
\* processed, never changes afterwards, and every gateway call and every
\* forward made for it carries it in the Authorization header.
C24_TokenOnce ==
  /\ [](/\ opc \in {"loop", "posting", "done", "aborted"} => token \in Tokens
        /\ pc[OC] # "idle" =>
             req[OC].body.forward.headers["Authorization"] = "Zoho-oauthtoken " \o token
        /\ \A i \in DOMAIN outbound[OC] :
             outbound[OC][i].headers["Authorization"] = "Zoho-oauthtoken " \o token)
  /\ [][/\ token' # token =>
             (opc = "start" /\ idx = 1 /\ results = <<>> /\ pc[OC] = "idle")
        /\ opc' = "start" => opc = "start"]_vars

\* the second call of a run carries the token acquired at the start
C24_Witness ==
  /\ opc = "posting"
  /\ idx = 2
  /\ token = "1000.xyz"
  /\ Len(outbound[OC]) = 1
  /\ outbound[OC][1].headers["Authorization"] = "Zoho-oauthtoken 1000.xyz"

\* C25: an attachment whose file-type tag is not in the mapping gets a
\* skipped outcome with reason "Unsupported file type: <tag>", no gateway
\* call, and the run goes on to the next attachment.
C25_UnmappedIsSkipped ==
  /\ opc = "posting" => HasMimeType(files[idx].fileType)
  /\ \A i \in DOMAIN files :
       ( /\ files[i].loads
         /\ ~HasMimeType(files[i].fileType)
         /\ (idx > i \/ (idx = i /\ opc \in {"done", "aborted"})) )
       => /\ i \in DOMAIN results
          /\ results[i] = SkippedOutcome(files[i])

\* C26: the file-type tag is resolved before the content is read, so the
\* content of an attachment whose tag is not in the mapping is never read:
\* a run cannot end on the failure of reading one.
C26_TagBeforeContent ==
  (opc = "aborted" /\ files[idx].loads) => HasMimeType(files[idx].fileType)

(***************************************************************************)
(* Concurrent requests, under SpecConc                                     *)
(***************************************************************************)
\* the response a request gets from its own input and its own upstream
OwnResponse(r, up) ==
  LET out == App(r)
  IN CASE out.kind = "respond" -> out.response
       [] out.kind = "request" /\ up.kind = "response" -> Relay(up.response)
       [] out.kind = "request" /\ up.kind = "error" -> NextError(up.err)
       [] OTHER -> NoResponse

\* C29: while the upstream of one forward stays silent only that request
\* stays open: every other request is served and answered, its response
\* computed from its own input and its own upstream response only, and a
\* step made for one request changes nothing of another.
C29_Independent ==
  /\ [](\A c \in Conn2 : Answered(c) => resp[c] = OwnResponse(req[c], upstream[c]))
  /\ [][\A c \in Conn2 :
          pc'[c] # pc[c] =>
            \A d \in Conn2 \ {c} :
              /\ pc'[d] = pc[d] /\ req'[d] = req[d] /\ resp'[d] = resp[d]
              /\ outbound'[d] = outbound[d] /\ upstream'[d] = upstream[d]]_vars
  /\ (pc["c2"] \in {"received", "awaiting"}) ~> (pc["c2"] = "responded")

\* c2 was answered from its own upstream while the forward of c1 is open
C29_Witness ==
  /\ pc["c1"] = "awaiting"
  /\ pc["c2"] = "responded"
  /\ upstream["c2"].kind = "response"
  /\ resp["c2"].status = 201
  /\ req["c1"] = req["c2"]

====
